---- MODULE Spec2Model ----
(***************************************************************************)
(* Model of package ecobeeauth (src/ecobeeauth/auth.go): the TokenSource   *)
(* that holds an oauth2 token, caches it in a file and refreshes it under  *)
(* a mutex, together with the callers that use it.                         *)
(*                                                                         *)
(* Time is counted in seconds.  A time.Duration is a signed integer of     *)
(* DurationBits bits counted in seconds (the program's is 64 bits of       *)
(* nanoseconds); the width is scaled down so that the wrap-around of       *)
(* time.Minute * time.Duration(ExpiresIn-1) is reachable.                  *)
(***************************************************************************)
EXTENDS Integers, FiniteSets, Sequences, TLC

VARIABLES
    mgr,        \* "down": no TokenSource constructed, "up": constructed
    ctorErr,    \* TRUE when the last NewTokenSource returned (nil, err)
    cacheFile,  \* ts.cacheFile: "" (caching disabled) or CachePath
    file,       \* contents of the file at CachePath
    tok,        \* ts.tok: NoTok (nil) or a token
    mut,        \* ts.mut: Free or the caller that holds it
    now,        \* time.Now(), seconds
    deadline,   \* deadline of the context of the refresh inside Token()
    pc,         \* per caller: where it is
    arg,        \* per caller: the token passed to the call it is in (to
                \* SaveToken or RefreshToken, by the caller or by Token())
    ret,        \* per caller: what its last call returned
    netCalls,   \* number of requests sent to the token-exchange endpoint
    calls,      \* number of calls of the API made so far
    saved,      \* the token SaveToken wrote, while the file holds that write
    fresh,      \* TRUE from construction until ts.tok is next assigned
    pin         \* the pin of this application at the portal: "none",
                \* "issued" (GetPin returned it) or "approved"

vars == <<mgr, ctorErr, cacheFile, file, tok, mut, now, deadline, pc, arg,
          ret, netCalls, calls, saved, fresh, pin>>

----------------------------------------------------------------------------
\* Bounds of the model.
NumCallers == 2
MaxTime == 15
MaxCalls == 3
DurationBits == 13

\* The goroutines that call Token() (the oauth2 transport of the exporter),
\* and the goroutine that uses the rest of the API (the HTTP handler).
Callers == 1..NumCallers
Handler == NumCallers + 1
Procs == Callers \cup {Handler}

\* Program constants.
Minute == 60
TokenTimeout == 5
ExpiryDelta == 10
ZeroTime == -100000

CachePath == "cache.json"
Free == 0
NoTok == [nil |-> TRUE]
NoExtra == [nil |-> TRUE]
Absent == [kind |-> "absent"]
Garbage == [kind |-> "garbage"]

\* A lapse of time between two steps.
TickSteps == {15}

----------------------------------------------------------------------------
\* Tokens (oauth2.Token): AccessToken, TokenType, RefreshToken, Expiry and the
\* unexported raw value that Extra reads (NoExtra when it was never attached).
MkToken(a, ty, r, e, x) ==
    [access |-> a, type |-> ty, refresh |-> r, expiry |-> e, extra |-> x]

\* A JSON object is a function from its keys to their values.
Field(obj, k, default) == IF k \in DOMAIN obj THEN obj[k] ELSE default

EmptyObject == [k \in {} |-> ""]

Json(obj) == [kind |-> "json", obj |-> obj]

\* oauth2.Token.Valid, as called on ts.tok: an access token is present and
\* the expiry, when set, is not within ExpiryDelta of the current time.
Expired(t, at) == t.expiry # ZeroTime /\ t.expiry - ExpiryDelta < at

Valid(t, at) == t # NoTok /\ t.access # "" /\ ~Expired(t, at)

\* Conversion to time.Duration and multiplication wrap at DurationBits bits.
Wrap(x) ==
    LET m == 2 ^ DurationBits
        r == x % m
    IN  IF r >= m \div 2 THEN r - m ELSE r

\* An encoding that leaves the refresh token out.
EncodeTokenNoRefresh(t) ==
    LET keys == {"access_token", "expiry"}
                \cup (IF t.type # "" THEN {"token_type"} ELSE {})
    IN  [k \in keys |->
            CASE k = "access_token" -> t.access
              [] k = "token_type" -> t.type
              [] k = "expiry" -> t.expiry]

\* json.NewEncoder(f).Encode(ts.tok): the exported fields of oauth2.Token;
\* token_type and refresh_token are omitted when empty, the extra value is
\* unexported and never written.
EncodeToken(t) ==
    LET keys == {"access_token", "expiry"}
                \cup (IF t.type # "" THEN {"token_type"} ELSE {})
                \cup (IF t.refresh # "" THEN {"refresh_token"} ELSE {})
    IN  [k \in keys |->
            CASE k = "access_token" -> t.access
              [] k = "token_type" -> t.type
              [] k = "refresh_token" -> t.refresh
              [] k = "expiry" -> t.expiry]

\* json.NewDecoder(f).Decode(&tok) into an oauth2.Token: absent keys leave
\* the zero value, nothing is attached as extra.
DecodeToken(obj) ==
    MkToken(Field(obj, "access_token", ""), Field(obj, "token_type", ""),
          Field(obj, "refresh_token", ""), Field(obj, "expiry", ZeroTime),
          NoExtra)

\* The keys of the embedded *oauth2.Token of token.UnmarshalJSON's struct.
TokenKeys == {"access_token", "token_type", "refresh_token", "expiry"}

\* An expiry that is never set.
ExpiryOfUnset(n, at) == ZeroTime

\* The lifetime taken as seconds.
ExpiryOfSeconds(n, at) == at + Wrap(n - 1)

\* The expiry token.UnmarshalJSON computes for expires_in = n at time at.
ExpiryOf(n, at) == at + Wrap(Minute * (n - 1))

\* token.UnmarshalJSON on a well-formed JSON object at time at.  The embedded
\* pointer is allocated only when the object has one of its keys; without
\* any, the assignment to f.Token.Expiry dereferences nil and panics.
UnmarshalJSON(obj, at) ==
    IF DOMAIN obj \cap TokenKeys = {}
    THEN [err |-> "panic", tok |-> NoTok]
    ELSE [err |-> "none",
          tok |-> MkToken(Field(obj, "access_token", ""),
                          Field(obj, "token_type", ""),
                          Field(obj, "refresh_token", ""),
                          ExpiryOf(Field(obj, "expires_in", 0), at),
                          [scope |-> Field(obj, "scope", "")])]

\* getToken: what the call returns for each outcome of the POST.
GetTokenResult(r, at) ==
    CASE r.kind = "transport" -> [err |-> "Transport", tok |-> NoTok]
      [] r.kind = "timeout" -> [err |-> "Transport", tok |-> NoTok]
      [] r.kind = "status" -> [err |-> "Status", tok |-> NoTok]
      [] r.kind = "badjson" -> [err |-> "Decode", tok |-> NoTok]
      [] r.kind = "body" -> UnmarshalJSON(r.body, at)

\* saveToken that assigns ts.tok only once the file was written.
SaveTokenResultKeepOnFail(t, w) ==
    IF cacheFile = ""
    THEN [tok |-> t, file |-> file, err |-> "none"]
    ELSE CASE w = "ok" -> [tok |-> t, file |-> Json(EncodeToken(t)), err |-> "none"]
           [] w = "openfail" -> [tok |-> tok, file |-> file, err |-> "CacheIO"]
           [] w = "encodefail" -> [tok |-> tok, file |-> Garbage, err |-> "CacheIO"]

\* saveToken(t) with w the outcome of the file write: ts.tok is assigned
\* first; the file is opened with O_TRUNC and then encoded into.
SaveTokenResult(t, w) ==
    IF cacheFile = ""
    THEN [tok |-> t, file |-> file, err |-> "none"]
    ELSE CASE w = "ok" -> [tok |-> t, file |-> Json(EncodeToken(t)), err |-> "none"]
           [] w = "openfail" -> [tok |-> t, file |-> file, err |-> "CacheIO"]
           [] w = "encodefail" -> [tok |-> t, file |-> Garbage, err |-> "CacheIO"]

WriteOutcomes == IF cacheFile = "" THEN {"ok"} ELSE {"ok", "openfail", "encodefail"}

\* A constructor that keeps the token it decoded into whatever Decode said.
LoadTokenAlwaysSet(path, f) ==
    IF path = "" THEN NoTok
    ELSE IF f.kind # "json" THEN DecodeToken(EmptyObject)
    ELSE DecodeToken(f.obj)

\* NewTokenSource: the token the new TokenSource holds once the file, if
\* any, was opened: ts.tok is set only when decoding did not fail.
LoadToken(path, f) ==
    IF path = "" \/ f.kind # "json" THEN NoTok ELSE DecodeToken(f.obj)

OpenOutcomes(path, f) ==
    IF path = "" THEN {"ok"}
    ELSE IF f = Absent THEN {"notexist"} ELSE {"ok", "error"}

----------------------------------------------------------------------------
\* The environment: cache files found at start, tokens a caller may hold
\* from elsewhere, and the answers of the token-exchange endpoint.
T1 == MkToken("a1", "Bearer", "r1", 20, NoExtra)
T2 == MkToken("a1", "Bearer", "", 20, NoExtra)
T3 == MkToken("a3", "Bearer", "r3", 20, NoExtra)

InitialFiles ==
    {Absent, Garbage, Json(EmptyObject), Json(EncodeToken(T1)), Json(EncodeToken(T2)),
     Json([access_token |-> "a1", refresh_token |-> "r1"])}

ExternalCreds == {T2, T3}

Body(n) ==
    [access_token |-> "a2", token_type |-> "Bearer", refresh_token |-> "r2",
     expires_in |-> n, scope |-> "smartWrite"]

ExpiresInValues == {1, 2, 100}

Bodies ==
    {Body(n) : n \in ExpiresInValues}
    \cup {[access_token |-> "a2", token_type |-> "Bearer", expires_in |-> 61,
           scope |-> "smartWrite"],
          [refresh_token |-> "r2"],
          [expires_in |-> 61, scope |-> "smartWrite"]}

Responses ==
    {[kind |-> k] : k \in {"transport", "timeout", "status", "badjson"}}
    \cup {[kind |-> "body", body |-> b] : b \in Bodies}

\* The answers of the authorize endpoint to GetPin.
PinResponses == {[kind |-> k] : k \in {"transport", "status", "badjson", "pin"}}

\* GetPin: what the call returns for each outcome of the GET.
GetPinResult(r) ==
    CASE r.kind = "transport" -> "Transport"
      [] r.kind = "status" -> "Status"
      [] r.kind = "badjson" -> "Decode"
      [] r.kind = "pin" -> "none"

\* The answers the token endpoint can give to a call of kind k ("getToken"
\* or "refreshToken"): the exchange of a code fails as long as its pin was
\* not approved at the portal.
Answers(k, approval) ==
    IF k = "getToken" /\ approval # "approved"
    THEN {r \in Responses : r.kind # "body"}
    ELSE Responses

\* What a call returned: the error and the token, with the error of the
\* cache write (which Token() drops) and the answer its request received.
\* The error "panic" stands for a call that did not return: it panicked, and
\* the panic went up through its deferred calls to its caller.
NoResp == [kind |-> "none"]
Ret(op, err, t, cacheErr, r) ==
    [op |-> op, err |-> err, tok |-> t, cacheErr |-> cacheErr, resp |-> r]
NoRet == Ret("none", "none", NoTok, "none", NoResp)

----------------------------------------------------------------------------
Init ==
    /\ mgr = "down"
    /\ ctorErr = FALSE
    /\ cacheFile \in {"", CachePath}
    /\ file \in (IF cacheFile = "" THEN {Absent} ELSE InitialFiles)
    /\ tok = NoTok
    /\ mut = Free
    /\ now = 0
    /\ deadline = 0
    /\ pc = [p \in Procs |-> "idle"]
    /\ arg = [p \in Procs |-> NoTok]
    /\ ret = [p \in Procs |-> NoRet]
    /\ netCalls = 0
    /\ calls = 0
    /\ saved = NoTok
    /\ fresh = FALSE
    /\ pin = "none"

\* Lock that never waits.
CanLockUnguarded == TRUE

\* sync.Mutex: Lock returns only while no caller holds the mutex.
CanLock == mut = Free

\* The token SaveToken wrote to the file, after a write of t with outcome
\* w by SaveToken (bySave) or by the refresh inside Token().
SavedAfter(t, w, bySave) ==
    IF cacheFile = "" \/ w = "openfail" THEN saved
    ELSE IF w = "ok" /\ bySave THEN t
    ELSE NoTok

\* A constructor that takes a missing file for an error.
CtorFailsOnMissing(o) == o # "ok"

\* NewTokenSource returns an error for every failure of os.Open but the
\* file not existing.
CtorFails(o) == o = "error"

\* NewTokenSource(clientID, cacheFile), o the outcome of os.Open.
NewTokenSource(o) ==
    /\ mgr = "down"
    /\ o \in OpenOutcomes(cacheFile, file)
    /\ IF CtorFails(o)
       THEN /\ ctorErr' = TRUE
            /\ UNCHANGED <<mgr, tok, fresh>>
       ELSE /\ ctorErr' = FALSE
            /\ mgr' = "up"
            /\ tok' = LoadToken(cacheFile, file)
            /\ fresh' = TRUE
    /\ UNCHANGED <<cacheFile, pin, file, mut, now, deadline, pc, arg, ret,
                   netCalls, calls, saved>>

\* The process ends (main returns or is killed between calls).
Exit ==
    /\ mgr = "up"
    /\ \A p \in Procs : pc[p] = "idle"
    /\ mgr' = "down"
    /\ tok' = NoTok
    /\ fresh' = FALSE
    /\ arg' = [p \in Procs |-> NoTok]
    /\ ret' = [p \in Procs |-> NoRet]
    /\ UNCHANGED <<ctorErr, cacheFile, pin, file, mut, now, deadline, pc,
                   netCalls, calls, saved>>

Tick(d) ==
    /\ now + d <= MaxTime
    /\ now' = now + d
    /\ UNCHANGED <<mgr, ctorErr, cacheFile, pin, file, tok, mut, deadline, pc, arg,
                   ret, netCalls, calls, saved, fresh>>

\* A caller enters Token() and waits for the mutex.
TokenCall(p) ==
    /\ mgr = "up"
    /\ pc[p] = "idle"
    /\ calls < MaxCalls
    /\ calls' = calls + 1
    /\ pc' = [pc EXCEPT ![p] = "tokenWait"]
    /\ arg' = [arg EXCEPT ![p] = NoTok]
    /\ ret' = [ret EXCEPT ![p] = NoRet]
    /\ UNCHANGED <<mgr, ctorErr, cacheFile, pin, file, tok, mut, now, deadline,
                   netCalls, saved, fresh>>

\* RefreshToken without its first check.
HasRefreshAlways(c) == TRUE

\* RefreshToken's first check: a token without a refresh token is refused
\* before any request is made.
HasRefresh(c) == c.refresh # ""

\* Token() that refreshes without looking at the expiry.
TokenPathAlwaysRefresh(t, at) ==
    IF t = NoTok THEN "nil"
    ELSE IF t.refresh = "" THEN "norefresh"
    ELSE "refresh"

\* Token() that returns the held token whatever its expiry.
TokenPathNoCheck(t, at) == IF t = NoTok THEN "nil" ELSE "valid"

\* What Token() does once it holds the mutex: "nil", "valid", "norefresh"
\* (RefreshToken returns at once) or "refresh" (the request is sent).
TokenPath(t, at) ==
    IF t = NoTok THEN "nil"
    ELSE IF Valid(t, at) THEN "valid"
    ELSE IF ~HasRefresh(t) THEN "norefresh"
    ELSE "refresh"

\* Token(): Lock, the checks, and either the return (with Unlock) or the
\* refresh request, RefreshToken(ctx, ts.tok), sent with a context of
\* TokenTimeout while the mutex stays held.
TokenRun(p) ==
    /\ pc[p] = "tokenWait"
    /\ CanLock
    /\ LET path == TokenPath(tok, now) IN
       IF path = "refresh"
       THEN /\ mut' = p
            /\ pc' = [pc EXCEPT ![p] = "tokenRefresh"]
            /\ netCalls' = netCalls + 1
            /\ deadline' = now + TokenTimeout
            /\ arg' = [arg EXCEPT ![p] = tok]
            /\ UNCHANGED ret
       ELSE /\ pc' = [pc EXCEPT ![p] = "idle"]
            /\ ret' = [ret EXCEPT ![p] =
                          CASE path = "nil" ->
                                   Ret("Token", "NotAuthorized", NoTok, "none", NoResp)
                            [] path = "valid" ->
                                   Ret("Token", "none", tok, "none", NoResp)
                            [] path = "norefresh" ->
                                   Ret("Token", "NoRefreshToken", NoTok, "none", NoResp)]
            /\ UNCHANGED <<mut, netCalls, deadline, arg>>
    /\ UNCHANGED <<mgr, ctorErr, cacheFile, pin, file, tok, now, calls, saved,
                   fresh>>

\* A refresh sent with a context that has no deadline.
InTimeNoDeadline(r) == r.kind # "timeout"

\* The outcomes the context of Token()'s refresh allows at the current time.
InTime(r) == IF r.kind = "timeout" THEN now >= deadline ELSE now < deadline

\* Token() returning the token it held when it was called.
RefreshCommitStale(g, w) ==
    IF g.err # "none"
    THEN [tok |-> tok, file |-> file, err |-> g.err, ret |-> NoTok,
          cacheErr |-> "none"]
    ELSE LET s == SaveTokenResult(g.tok, w)
         IN  [tok |-> s.tok, file |-> s.file, err |-> "none", ret |-> tok,
              cacheErr |-> s.err]

\* Token() dropping the held token when the refresh failed.
RefreshCommitDiscard(g, w) ==
    IF g.err # "none"
    THEN [tok |-> NoTok, file |-> file, err |-> g.err, ret |-> NoTok,
          cacheErr |-> "none"]
    ELSE LET s == SaveTokenResult(g.tok, w)
         IN  [tok |-> s.tok, file |-> s.file, err |-> "none", ret |-> s.tok,
              cacheErr |-> s.err]

\* Token() keeping the refresh token it held when the new token has none.
RefreshCommitMerge(g, w) ==
    IF g.err # "none"
    THEN [tok |-> tok, file |-> file, err |-> g.err, ret |-> NoTok,
          cacheErr |-> "none"]
    ELSE LET n == IF g.tok.refresh = ""
                  THEN [g.tok EXCEPT !.refresh = tok.refresh]
                  ELSE g.tok
             s == SaveTokenResult(n, w)
         IN  [tok |-> s.tok, file |-> s.file, err |-> "none", ret |-> s.tok,
              cacheErr |-> s.err]

\* Token() returning the error of the cache write.
RefreshCommitPropagate(g, w) ==
    IF g.err # "none"
    THEN [tok |-> tok, file |-> file, err |-> g.err, ret |-> NoTok,
          cacheErr |-> "none"]
    ELSE LET s == SaveTokenResult(g.tok, w)
         IN  [tok |-> s.tok, file |-> s.file, err |-> s.err,
              ret |-> IF s.err = "none" THEN s.tok ELSE NoTok,
              cacheErr |-> s.err]

\* Token() after RefreshToken returned g, with w the outcome of the cache
\* write: on an error Token() returns it and touches nothing; otherwise
\* saveToken runs, its error is dropped and ts.tok is returned.
RefreshCommit(g, w) ==
    IF g.err # "none"
    THEN [tok |-> tok, file |-> file, err |-> g.err, ret |-> NoTok,
          cacheErr |-> "none"]
    ELSE LET s == SaveTokenResult(g.tok, w)
         IN  [tok |-> s.tok, file |-> s.file, err |-> "none", ret |-> s.tok,
              cacheErr |-> s.err]

\* The refresh inside Token() ends with outcome r of the POST and outcome w
\* of the cache write; the mutex is released.
TokenRefreshDone(p, r, w) ==
    /\ pc[p] = "tokenRefresh"
    /\ InTime(r)
    /\ LET g == GetTokenResult(r, now)
           c == RefreshCommit(g, w)
       IN  /\ tok' = c.tok
           /\ file' = c.file
           /\ ret' = [ret EXCEPT ![p] = Ret("Token", c.err, c.ret, c.cacheErr, r)]
           /\ saved' = IF g.err = "none" THEN SavedAfter(g.tok, w, FALSE) ELSE saved
           /\ fresh' = IF g.err = "none" THEN FALSE ELSE fresh
    /\ mut' = Free
    /\ pc' = [pc EXCEPT ![p] = "idle"]
    /\ arg' = [arg EXCEPT ![p] = NoTok]
    /\ UNCHANGED <<mgr, ctorErr, cacheFile, pin, now, deadline, netCalls, calls>>

\* The tokens a caller can pass on: one it made, or the one it was returned.
CredsInHand(p) ==
    ExternalCreds
    \cup (IF ret[p].err = "none" /\ ret[p].tok # NoTok THEN {ret[p].tok} ELSE {})

\* A caller enters SaveToken(c) and waits for the mutex.
SaveTokenCall(p, c) ==
    /\ mgr = "up"
    /\ pc[p] = "idle"
    /\ calls < MaxCalls
    /\ calls' = calls + 1
    /\ pc' = [pc EXCEPT ![p] = "saveWait"]
    /\ arg' = [arg EXCEPT ![p] = c]
    /\ ret' = [ret EXCEPT ![p] = NoRet]
    /\ UNCHANGED <<mgr, ctorErr, cacheFile, pin, file, tok, mut, now, deadline,
                   netCalls, saved, fresh>>

\* SaveToken(c): Lock, saveToken, Unlock.
SaveTokenRun(p, w) ==
    /\ pc[p] = "saveWait"
    /\ CanLock
    /\ LET s == SaveTokenResult(arg[p], w) IN
       /\ tok' = s.tok
       /\ file' = s.file
       /\ ret' = [ret EXCEPT ![p] = Ret("SaveToken", s.err, NoTok, s.err, NoResp)]
    /\ saved' = SavedAfter(arg[p], w, TRUE)
    /\ fresh' = FALSE
    /\ pc' = [pc EXCEPT ![p] = "idle"]
    /\ UNCHANGED <<mgr, ctorErr, cacheFile, pin, mut, now, deadline, arg, netCalls,
                   calls>>

\* GetToken(ctx, code): the POST is sent.
GetTokenCall(p) ==
    /\ mgr = "up"
    /\ pc[p] = "idle"
    /\ calls < MaxCalls
    /\ calls' = calls + 1
    /\ netCalls' = netCalls + 1
    /\ pc' = [pc EXCEPT ![p] = "getToken"]
    /\ arg' = [arg EXCEPT ![p] = NoTok]
    /\ ret' = [ret EXCEPT ![p] = NoRet]
    /\ UNCHANGED <<mgr, ctorErr, cacheFile, pin, file, tok, mut, now, deadline,
                   saved, fresh>>

\* GetPin(ctx): the GET is sent.
GetPinCall(p) ==
    /\ mgr = "up"
    /\ pc[p] = "idle"
    /\ pc' = [pc EXCEPT ![p] = "getPin"]
    /\ arg' = [arg EXCEPT ![p] = NoTok]
    /\ ret' = [ret EXCEPT ![p] = NoRet]
    /\ UNCHANGED <<mgr, ctorErr, cacheFile, pin, file, tok, mut, now, deadline,
                   netCalls, calls, saved, fresh>>

\* GetPin returns: the decoded PinResponse or an error.  A pin that was
\* returned is one the user can approve.
GetPinDone(p, r) ==
    /\ pc[p] = "getPin"
    /\ ret' = [ret EXCEPT ![p] = Ret("GetPin", GetPinResult(r), NoTok, "none", r)]
    /\ pin' = IF r.kind = "pin" /\ pin = "none" THEN "issued" ELSE pin
    /\ pc' = [pc EXCEPT ![p] = "idle"]
    /\ UNCHANGED <<mgr, ctorErr, cacheFile, file, tok, mut, now, deadline,
                   arg, netCalls, calls, saved, fresh>>

\* The user approves the pin in the portal.
Approve ==
    /\ pin = "issued"
    /\ pin' = "approved"
    /\ UNCHANGED <<mgr, ctorErr, cacheFile, file, tok, mut, now, deadline, pc,
                   arg, ret, netCalls, calls, saved, fresh>>

\* A caller enters RefreshToken(ctx, c).
RefreshTokenCall(p, c) ==
    /\ mgr = "up"
    /\ pc[p] = "idle"
    /\ calls < MaxCalls
    /\ calls' = calls + 1
    /\ pc' = [pc EXCEPT ![p] = "refreshEnter"]
    /\ arg' = [arg EXCEPT ![p] = c]
    /\ ret' = [ret EXCEPT ![p] = NoRet]
    /\ UNCHANGED <<mgr, ctorErr, cacheFile, pin, file, tok, mut, now, deadline,
                   netCalls, saved, fresh>>

\* RefreshToken(ctx, c): without a refresh token it returns at once,
\* otherwise the POST is sent.
RefreshTokenRun(p) ==
    /\ pc[p] = "refreshEnter"
    /\ IF ~HasRefresh(arg[p])
       THEN /\ ret' = [ret EXCEPT ![p] =
                          Ret("RefreshToken", "NoRefreshToken", NoTok, "none", NoResp)]
            /\ pc' = [pc EXCEPT ![p] = "idle"]
            /\ UNCHANGED netCalls
       ELSE /\ netCalls' = netCalls + 1
            /\ pc' = [pc EXCEPT ![p] = "refreshToken"]
            /\ UNCHANGED ret
    /\ UNCHANGED <<mgr, ctorErr, cacheFile, pin, file, tok, mut, now, deadline,
                   arg, calls, saved, fresh>>

\* GetToken and RefreshToken making the token they obtained the held one.
ExchangeDoneActivating(p, r) ==
    /\ pc[p] \in {"getToken", "refreshToken"}
    /\ r \in Answers(pc[p], pin)
    /\ LET g == GetTokenResult(r, now) IN
       /\ ret' = [ret EXCEPT ![p] =
                     Ret(IF pc[p] = "getToken" THEN "GetToken" ELSE "RefreshToken",
                         g.err, g.tok, "none", r)]
       /\ tok' = IF g.err = "none" THEN g.tok ELSE tok
    /\ pc' = [pc EXCEPT ![p] = "idle"]
    /\ UNCHANGED <<mgr, ctorErr, cacheFile, pin, file, mut, now, deadline,
                   arg, netCalls, calls, saved, fresh>>

\* getToken returns to a direct caller of GetToken or RefreshToken.
ExchangeDone(p, r) ==
    /\ pc[p] \in {"getToken", "refreshToken"}
    /\ r \in Answers(pc[p], pin)
    /\ LET g == GetTokenResult(r, now) IN
       ret' = [ret EXCEPT ![p] =
                  Ret(IF pc[p] = "getToken" THEN "GetToken" ELSE "RefreshToken",
                      g.err, g.tok, "none", r)]
    /\ pc' = [pc EXCEPT ![p] = "idle"]
    /\ UNCHANGED <<mgr, ctorErr, cacheFile, pin, file, tok, mut, now, deadline,
                   arg, netCalls, calls, saved, fresh>>

Next ==
    \/ \E o \in {"ok", "notexist", "error"} : NewTokenSource(o)
    \/ Exit
    \/ \E d \in TickSteps : Tick(d)
    \/ \E p \in Callers : TokenCall(p)
    \/ \E p \in Callers : TokenRun(p)
    \/ \E p \in Callers, r \in Responses, w \in WriteOutcomes :
           TokenRefreshDone(p, r, w)
    \/ \E c \in CredsInHand(Handler) : SaveTokenCall(Handler, c)
    \/ \E w \in WriteOutcomes : SaveTokenRun(Handler, w)
    \/ GetPinCall(Handler)
    \/ \E r \in PinResponses : GetPinDone(Handler, r)
    \/ Approve
    \/ GetTokenCall(Handler)
    \/ \E c \in CredsInHand(Handler) : RefreshTokenCall(Handler, c)
    \/ RefreshTokenRun(Handler)
    \/ \E r \in Responses : ExchangeDone(Handler, r)

Spec == Init /\ [][Next]_vars

----------------------------------------------------------------------------
\* N concurrent Token() calls on a manager that holds an expired token with
\* a refresh token: every caller has entered Token() and waits for the mutex.
TB == MkToken("a1", "Bearer", "r1", -5, NoExtra)

InitBurst ==
    /\ mgr = "up"
    /\ ctorErr = FALSE
    /\ cacheFile \in {"", CachePath}
    /\ file = (IF cacheFile = "" THEN Absent ELSE Json(EncodeToken(TB)))
    /\ tok = TB
    /\ mut = Free
    /\ now = 0
    /\ deadline = 0
    /\ pc = [p \in Procs |-> IF p \in Callers THEN "tokenWait" ELSE "idle"]
    /\ arg = [p \in Procs |-> NoTok]
    /\ ret = [p \in Procs |-> NoRet]
    /\ netCalls = 0
    /\ calls = NumCallers
    /\ saved = (IF cacheFile = "" THEN NoTok ELSE TB)
    /\ fresh = TRUE
    /\ pin = "approved"

NextBurst ==
    \/ \E d \in TickSteps : Tick(d)
    \/ \E p \in Callers : TokenRun(p)
    \/ \E p \in Callers, r \in Responses, w \in WriteOutcomes :
           TokenRefreshDone(p, r, w)

SpecBurst == InitBurst /\ [][NextBurst]_vars

BurstDone == \A p \in Callers : pc[p] = "idle" /\ ret[p].op = "Token"

----------------------------------------------------------------------------
\* Steps of a Token() call of caller p, read off two successive states.
TokenChecks(p) == pc[p] = "tokenWait" /\ pc'[p] # "tokenWait"
TokenSends(p) == pc[p] = "tokenWait" /\ pc'[p] = "tokenRefresh"
TokenEndsRefresh(p) == pc[p] = "tokenRefresh" /\ pc'[p] = "idle"
Refreshing == {p \in Procs : pc[p] = "tokenRefresh"}

\* C1 as stated: once the N calls of the burst have returned, one request
\* was sent in total and every call returned the same token or the same
\* error.
C1_OneRequestSameResult ==
    BurstDone => /\ netCalls = 1
                 /\ \A p, q \in Callers :
                        ret[p].err = ret[q].err /\ ret[p].tok = ret[q].tok

\* C1: in a burst of N Token() calls on an expired token with a refresh
\* token, each call sends at most one request and the first one to run
\* sends one; when every call returned a token that is still valid, exactly
\* one request was sent in total and all calls returned the same token.
C1_SingleRequestWhenRefreshedValid ==
    /\ netCalls <= Cardinality({p \in Callers : pc[p] # "tokenWait"})
    /\ (\E p \in Callers : pc[p] # "tokenWait") => netCalls >= 1
    /\ (BurstDone /\ \A p \in Callers :
                        ret[p].err = "none" /\ Valid(ret[p].tok, now))
       => /\ netCalls = 1
          /\ \A p, q \in Callers : ret[p].tok = ret[q].tok

C1_Witness ==
    /\ BurstDone
    /\ netCalls = 1
    /\ \A p \in Callers : ret[p].err = "none" /\ Valid(ret[p].tok, now)
    /\ \E p \in Callers : ret[p].resp.kind = "body"

\* C2: at most one refresh started by Token() is in flight, its caller
\* holds the mutex, and while it is in flight no waiting caller of Token()
\* or SaveToken proceeds and the held token and the cache file stay as
\* they are until the refreshing caller itself applies its result.
C2_AtMostOneRefreshInFlight ==
    /\ [](/\ Cardinality(Refreshing) <= 1
          /\ \A p \in Refreshing : mut = p
          /\ mut # Free => mut \in Refreshing)
    /\ [][\A p \in Refreshing :
            /\ \A q \in Procs \ {p} :
                  pc[q] \in {"tokenWait", "saveWait"} => pc'[q] = pc[q]
            /\ pc'[p] = "tokenRefresh" => tok' = tok /\ file' = file]_vars

C2_Witness ==
    \E p, q \in Callers :
        /\ pc[p] = "tokenRefresh"
        /\ pc[q] = "tokenWait"
        /\ pc[Handler] = "saveWait"

\* The answer r is a 200 whose body decodes into a token.
Succeeds(r) == r.kind = "body" /\ DOMAIN r.body \cap TokenKeys # {}

\* C3: a Token() call that finds the held token invalid with a refresh token
\* sends one request and none after it; when the answer decodes, the decoded
\* token is the held one and the returned one, and the cache file holds its
\* encoding when caching is enabled and the write did not fail.
C3_RefreshReplacesAndReturns ==
    [][\A p \in Callers :
         /\ (TokenChecks(p) /\ tok # NoTok /\ ~Valid(tok, now) /\ tok.refresh # "")
            => TokenSends(p) /\ netCalls' = netCalls + 1
         /\ TokenEndsRefresh(p) => netCalls' = netCalls
         /\ (TokenEndsRefresh(p) /\ Succeeds(ret'[p].resp))
            => LET d == UnmarshalJSON(ret'[p].resp.body, now).tok
               IN  /\ ret'[p].err = "none"
                   /\ ret'[p].tok = d
                   /\ tok' = d
                   /\ (cacheFile # "" /\ ret'[p].cacheErr = "none")
                      => file' = Json(EncodeToken(d))]_vars

C3_Witness ==
    \E p \in Callers :
        /\ ret[p].op = "Token"
        /\ Succeeds(ret[p].resp)
        /\ ret[p].err = "none"
        /\ tok = ret[p].tok
        /\ cacheFile # ""
        /\ file = Json(EncodeToken(tok))

\* The expires_in of an answer, and whether the lifetime computed from it
\* fits a time.Duration.
ExpiresIn(r) == Field(r.body, "expires_in", 0)
Fits(n) == Minute * (n - 1) < 2 ^ (DurationBits - 1)

\* The time at which the Token() call now refreshing checked the token.
CheckedAt == deadline - TokenTimeout

\* C4 as stated: a successful refresh of an expired token returns a token
\* whose expiry is later than the expiry of the token held before.
C4_ExpiryAlwaysLater ==
    [][\A p \in Callers :
         (TokenEndsRefresh(p) /\ ret'[p].err = "none" /\ Expired(tok, CheckedAt))
         => ret'[p].tok.expiry > tok.expiry]_vars

\* C4: a successful refresh of an expired token returns a token whose expiry
\* is later than the expiry of the token held before, when the answer's
\* expires_in is at least 2 and its lifetime fits a time.Duration.
C4_ExpiryLaterFromTwoMinutes ==
    [][\A p \in Callers :
         (/\ TokenEndsRefresh(p)
          /\ ret'[p].err = "none"
          /\ Expired(tok, CheckedAt)
          /\ ExpiresIn(ret'[p].resp) >= 2
          /\ Fits(ExpiresIn(ret'[p].resp)))
         => ret'[p].tok.expiry > tok.expiry]_vars

C4_Witness ==
    \E p \in Callers :
        /\ ret[p].op = "Token"
        /\ ret[p].err = "none"
        /\ Succeeds(ret[p].resp)
        /\ ExpiresIn(ret[p].resp) = 2
        /\ tok = ret[p].tok
        /\ tok.expiry = now + Minute

\* What Token() must do when it returns the held token as it is.
ReturnsHeld(p) ==
    /\ pc'[p] = "idle"
    /\ ret'[p].err = "none"
    /\ ret'[p].tok = tok
    /\ tok' = tok
    /\ file' = file
    /\ netCalls' = netCalls

\* C5 as stated: a held token whose expiry is in the future is returned as
\* it is, without a request and without a change of the token or the file.
C5_FutureExpiryReturned ==
    [][\A p \in Callers :
         (TokenChecks(p) /\ tok # NoTok /\ tok.expiry > now)
         => ReturnsHeld(p)]_vars

\* C5: a held token with an access token and an expiry that is unset or at
\* least ExpiryDelta in the future is returned as it is, without a request
\* and without a change of the token or the file.
C5_ValidReturned ==
    [][\A p \in Callers :
         (/\ TokenChecks(p)
          /\ tok # NoTok
          /\ tok.access # ""
          /\ (tok.expiry = ZeroTime \/ tok.expiry - ExpiryDelta >= now))
         => ReturnsHeld(p)]_vars

C5_Witness ==
    \E p \in Callers :
        /\ ret[p].op = "Token"
        /\ ret[p].err = "none"
        /\ ret[p].resp = NoResp
        /\ ret[p].tok = tok
        /\ tok.expiry - ExpiryDelta >= now
        /\ netCalls = 0

\* The token Token() returns has the persisted fields of c.
SamePersisted(t, c) ==
    /\ t.access = c.access
    /\ t.refresh = c.refresh
    /\ t.type = c.type
    /\ t.expiry = c.expiry

\* C6 as stated: after SaveToken(c) wrote the cache and a new TokenSource
\* was constructed from it, Token() returns c, equal in every field, while
\* the expiry of c is in the future.
C6_RoundTripEveryField ==
    [][\A p \in Callers :
         (/\ TokenChecks(p)
          /\ fresh /\ cacheFile # "" /\ saved # NoTok
          /\ saved.expiry > now)
         => /\ pc'[p] = "idle"
            /\ ret'[p].err = "none"
            /\ ret'[p].tok = saved]_vars

\* C6: after SaveToken(c) wrote the cache and a new TokenSource was
\* constructed from it, Token() returns, while c is valid, a token with the
\* access token, refresh token, token type and expiry of c and with no extra
\* value: the scope is not part of the file.
C6_RoundTripPersistedFields ==
    [][\A p \in Callers :
         (/\ TokenChecks(p)
          /\ fresh /\ cacheFile # "" /\ saved # NoTok
          /\ saved.access # ""
          /\ (saved.expiry = ZeroTime \/ saved.expiry - ExpiryDelta >= now))
         => /\ pc'[p] = "idle"
            /\ ret'[p].err = "none"
            /\ SamePersisted(ret'[p].tok, saved)
            /\ ret'[p].tok.extra = NoExtra
            /\ netCalls' = netCalls]_vars

C6_Witness ==
    \E p \in Callers :
        /\ fresh /\ cacheFile # "" /\ saved # NoTok
        /\ saved.extra # NoExtra
        /\ ret[p].op = "Token"
        /\ ret[p].err = "none"
        /\ ret[p].resp = NoResp
        /\ SamePersisted(ret[p].tok, saved)
        /\ ret[p].tok.extra = NoExtra

\* Every Token() call of this process so far failed with NotAuthorized and
\* sent nothing.
OnlyNotAuthorized ==
    \A p \in Callers :
        /\ pc[p] # "tokenRefresh"
        /\ ret[p].op = "Token"
           => /\ ret[p].err = "NotAuthorized"
              /\ ret[p].tok = NoTok
              /\ ret[p].resp = NoResp

\* C7: with a cache path whose file does not exist NewTokenSource returns
\* no error and a TokenSource without a token, and as long as no token was
\* assigned every Token() call fails with NotAuthorized without a request.
C7_MissingCacheNotAuthorized ==
    /\ (cacheFile # "" /\ file = Absent) => ~ctorErr
    /\ (mgr = "up" /\ fresh /\ cacheFile # "" /\ file = Absent) => tok = NoTok
    /\ (mgr = "up" /\ fresh /\ tok = NoTok) => OnlyNotAuthorized

C7_Witness ==
    /\ mgr = "up" /\ fresh /\ cacheFile # "" /\ file = Absent
    /\ \E p \in Callers : ret[p].op = "Token" /\ ret[p].err = "NotAuthorized"

\* C8: with a cache file that does not parse NewTokenSource returns no
\* error and a TokenSource without a token, whose Token() fails with
\* NotAuthorized.
C8_CorruptCacheNotAuthorized ==
    (mgr = "up" /\ fresh /\ cacheFile # "" /\ file = Garbage)
    => /\ ~ctorErr
       /\ tok = NoTok
       /\ OnlyNotAuthorized

C8_Witness ==
    /\ mgr = "up" /\ fresh /\ cacheFile # "" /\ file = Garbage
    /\ \E p \in Callers : ret[p].op = "Token" /\ ret[p].err = "NotAuthorized"

\* The call of p ends with NoRefreshToken, no request and no change.
FailsNoRefreshToken(p) ==
    /\ pc'[p] = "idle"
    /\ ret'[p].err = "NoRefreshToken"
    /\ ret'[p].tok = NoTok
    /\ netCalls' = netCalls
    /\ tok' = tok
    /\ file' = file

\* C9: RefreshToken on a token without a refresh token fails with
\* NoRefreshToken and sends nothing, and so does Token() when the held
\* token is invalid and has no refresh token, leaving the held token as it
\* is.
C9_NoRefreshTokenNoRequest ==
    [][/\ \A p \in Procs :
            (pc[p] = "refreshEnter" /\ pc'[p] # "refreshEnter"
             /\ arg[p].refresh = "")
            => ret'[p].op = "RefreshToken" /\ FailsNoRefreshToken(p)
       /\ \A p \in Callers :
            (TokenChecks(p) /\ tok # NoTok /\ ~Valid(tok, now)
             /\ tok.refresh = "")
            => ret'[p].op = "Token" /\ FailsNoRefreshToken(p)]_vars

C9_Witness ==
    /\ ret[Handler].op = "RefreshToken"
    /\ ret[Handler].err = "NoRefreshToken"
    /\ arg[Handler].refresh = ""
    /\ \E p \in Callers :
          /\ ret[p].op = "Token"
          /\ ret[p].err = "NoRefreshToken"
          /\ tok # NoTok /\ tok.refresh = "" /\ Expired(tok, now)
    /\ netCalls = 0

FailureKinds == {"transport", "timeout", "status", "badjson"}

\* C10: when the refresh inside Token() fails (the POST fails, times out,
\* is answered with another status than 200 or with a body that is not
\* JSON, or the held token has no refresh token), Token() returns an error
\* and no token, and the held token and the cache file are unchanged.
C10_RefreshFailureKeepsState ==
    [][\A p \in Callers :
         (\/ TokenEndsRefresh(p) /\ ret'[p].resp.kind \in FailureKinds
          \/ TokenChecks(p) /\ tok # NoTok /\ ~Valid(tok, now)
             /\ tok.refresh = "")
         => /\ pc'[p] = "idle"
            /\ ret'[p].op = "Token"
            /\ ret'[p].err # "none"
            /\ ret'[p].tok = NoTok
            /\ tok' = tok
            /\ file' = file]_vars

C10_Witness ==
    \E p \in Callers :
        /\ ret[p].op = "Token"
        /\ ret[p].resp.kind = "status"
        /\ ret[p].err = "Status"
        /\ tok # NoTok /\ Expired(tok, now) /\ tok.refresh # ""
        /\ cacheFile # "" /\ file = Json(EncodeToken(tok))

\* C11: when the refresh inside Token() succeeds and the write of the cache
\* file fails, Token() returns no error and the new token, the new token is
\* the held one, and the error of the write is not returned.
C11_CacheWriteErrorSwallowed ==
    [][\A p \in Callers :
         (/\ TokenEndsRefresh(p)
          /\ Succeeds(ret'[p].resp)
          /\ ret'[p].cacheErr # "none")
         => LET d == UnmarshalJSON(ret'[p].resp.body, now).tok
            IN  /\ ret'[p].err = "none"
                /\ ret'[p].tok = d
                /\ tok' = d
                /\ mut' = Free]_vars

C11_Witness ==
    \E p \in Callers :
        /\ ret[p].op = "Token"
        /\ Succeeds(ret[p].resp)
        /\ ret[p].cacheErr = "CacheIO"
        /\ ret[p].err = "none"
        /\ tok = ret[p].tok
        /\ file # Json(EncodeToken(tok))

\* A SaveToken call of p returns at this step.
SaveTokenReturns(p) == pc[p] = "saveWait" /\ pc'[p] = "idle"

\* C12: SaveToken(c) makes c the held token in every outcome.  With caching
\* disabled it returns no error and leaves the file alone; with caching
\* enabled it returns no error when the file now holds the encoding of c,
\* and an I/O error when the write failed (the file is as it was, or was
\* truncated); c is the held token in both cases.
C12_SaveTokenAlwaysHolds ==
    [][\A p \in Procs :
         SaveTokenReturns(p)
         => /\ tok' = arg[p]
            /\ ret'[p].op = "SaveToken"
            /\ cacheFile = "" => ret'[p].err = "none" /\ file' = file
            /\ cacheFile # ""
               => \/ ret'[p].err = "none" /\ file' = Json(EncodeToken(arg[p]))
                  \/ /\ ret'[p].err = "CacheIO"
                     /\ file' \in {file, Garbage}]_vars

C12_Witness ==
    /\ ret[Handler].op = "SaveToken"
    /\ ret[Handler].err = "CacheIO"
    /\ cacheFile # ""
    /\ tok = arg[Handler]
    /\ file # Json(EncodeToken(tok))

\* Caller p takes a step of a direct call of GetPin, GetToken or
\* RefreshToken: it enters the call, or the call sends or returns.
DirectPcs == {"getPin", "getToken", "refreshEnter", "refreshToken"}
DirectStep(p) ==
    pc'[p] # pc[p] /\ (pc[p] \in DirectPcs \/ pc'[p] \in DirectPcs)

\* C13: no step of GetPin, GetToken or a directly called RefreshToken
\* changes the held token or the cache file, whatever its outcome; while
\* the TokenSource lives, the held token changes only when SaveToken runs
\* or when the refresh inside Token() succeeds.
C13_DirectCallsChangeNothing ==
    [][/\ \A p \in Procs : DirectStep(p) => tok' = tok /\ file' = file
       /\ (mgr = "up" /\ mgr' = "up" /\ tok' # tok)
          => \/ \E p \in Procs : SaveTokenReturns(p)
             \/ \E p \in Callers :
                    TokenEndsRefresh(p) /\ ret'[p].err = "none"]_vars

C13_Witness ==
    /\ mgr = "up"
    /\ pin = "approved"
    /\ ret[Handler].op = "GetToken"
    /\ ret[Handler].err = "none"
    /\ ret[Handler].tok # NoTok
    /\ tok = NoTok
    /\ file = Absent

\* The call of p returns at this step a token decoded from a response.
Decoded(p) ==
    /\ pc[p] \in {"tokenRefresh", "getToken", "refreshToken"}
    /\ pc'[p] = "idle"
    /\ ret'[p].err = "none"
    /\ ret'[p].resp.kind = "body"

\* C14 as stated: the token decoded from a response with expires_in = n
\* expires n seconds less one minute after the time of decoding.
C14_ExpiresInSeconds ==
    [][\A p \in Procs :
         Decoded(p)
         => ret'[p].tok.expiry = now + ExpiresIn(ret'[p].resp) - Minute]_vars

\* C14: the token decoded from a response with expires_in = n expires n - 1
\* minutes after the time of decoding, when that lifetime fits a
\* time.Duration: expires_in = 61 gives an expiry 60 minutes ahead.
C14_ExpiresInMinutes ==
    [][\A p \in Procs :
         (Decoded(p) /\ Fits(ExpiresIn(ret'[p].resp)))
         => /\ ret'[p].tok.expiry = now + Minute * (ExpiresIn(ret'[p].resp) - 1)
            /\ ExpiresIn(ret'[p].resp) = 61
               => ret'[p].tok.expiry = now + 60 * Minute]_vars

C14_Witness ==
    \E p \in Procs :
        /\ ret[p].err = "none"
        /\ ret[p].resp.kind = "body"
        /\ ExpiresIn(ret[p].resp) = 61
        /\ ret[p].tok.expiry = now + 60 * Minute

\* C15 as stated: the token a TokenSource holds always has its expiry set.
C15_ExpiryAlwaysSet ==
    (mgr = "up" /\ tok # NoTok) => tok.expiry # ZeroTime

\* C15: every token decoded from a response has its expiry set, and so has
\* every token this program writes to the cache file; the held token has
\* its expiry set unless it is the token NewTokenSource decoded from a cache
\* file that has no expiry.
C15_ExpirySetUnlessLoaded ==
    /\ []((mgr = "up" /\ tok # NoTok /\ tok.expiry = ZeroTime)
          => /\ fresh
             /\ file.kind = "json"
             /\ "expiry" \notin DOMAIN file.obj
             /\ tok = DecodeToken(file.obj))
    /\ [][/\ \A p \in Procs : Decoded(p) => ret'[p].tok.expiry # ZeroTime
          /\ (file' # file /\ file'.kind = "json")
             => /\ "expiry" \in DOMAIN file'.obj
                /\ file'.obj.expiry # ZeroTime]_vars

C15_Witness ==
    /\ mgr = "up"
    /\ ~fresh
    /\ ret[Handler].op = "SaveToken"
    /\ tok # NoTok
    /\ tok.extra # NoExtra
    /\ tok.expiry # ZeroTime
    /\ file = Json(EncodeToken(tok))

----------------------------------------------------------------------------
\* The exporter (src/main.go) started without a token: /auth-start calls
\* GetPin, /auth-validate calls GetToken and, when that returned a token,
\* SaveToken with it, while the transport calls Token().

\* A handler that saves a token whatever GetToken returned.
ValidateCredsUnchecked(p) == {T3}

\* The token /auth-validate passes to SaveToken: the one GetToken returned
\* without an error.
ValidateCreds(p) ==
    IF ret[p].op = "GetToken" /\ ret[p].err = "none" THEN {ret[p].tok} ELSE {}

\* A request handler starts only when the previous one has returned.
HandlerFree == ValidateCreds(Handler) = {}

InitPin ==
    /\ mgr = "up"
    /\ ctorErr = FALSE
    /\ cacheFile \in {"", CachePath}
    /\ file \in (IF cacheFile = "" THEN {Absent} ELSE {Absent, Garbage})
    /\ tok = NoTok
    /\ mut = Free
    /\ now = 0
    /\ deadline = 0
    /\ pc = [p \in Procs |-> "idle"]
    /\ arg = [p \in Procs |-> NoTok]
    /\ ret = [p \in Procs |-> NoRet]
    /\ netCalls = 0
    /\ calls = 0
    /\ saved = NoTok
    /\ fresh = TRUE
    /\ pin = "none"

NextPin ==
    \/ \E d \in TickSteps : Tick(d)
    \/ HandlerFree /\ GetPinCall(Handler)
    \/ \E r \in PinResponses : GetPinDone(Handler, r)
    \/ Approve
    \/ HandlerFree /\ GetTokenCall(Handler)
    \/ \E r \in Responses : ExchangeDone(Handler, r)
    \/ \E c \in ValidateCreds(Handler) : SaveTokenCall(Handler, c)
    \/ \E w \in WriteOutcomes : SaveTokenRun(Handler, w)
    \/ \E p \in Callers : TokenCall(p)
    \/ \E p \in Callers : TokenRun(p)
    \/ \E p \in Callers, r \in Responses, w \in WriteOutcomes :
           TokenRefreshDone(p, r, w)

SpecPin == InitPin /\ [][NextPin]_vars

\* C16: started without a token, the exporter holds a token only after the
\* pin was approved: while the pin is not approved GetToken returns an
\* error, the handler enters SaveToken only with the token a GetToken
\* without error returned, every Token() call that runs before that
\* SaveToken fails with NotAuthorized without a request, and no Token() call
\* that runs after it fails with NotAuthorized.
C16_HeldOnlyAfterApproval ==
    /\ [](tok # NoTok => pin = "approved")
    /\ [][/\ (pc[Handler] = "getToken" /\ pc'[Handler] = "idle"
              /\ pin # "approved")
             => ret'[Handler].err # "none"
          /\ (pc[Handler] # "saveWait" /\ pc'[Handler] = "saveWait")
             => /\ ret[Handler].op = "GetToken"
                /\ ret[Handler].err = "none"
                /\ arg'[Handler] = ret[Handler].tok
          /\ \A p \in Callers :
                /\ (TokenChecks(p) /\ fresh)
                   => /\ pc'[p] = "idle"
                      /\ ret'[p].err = "NotAuthorized"
                      /\ netCalls' = netCalls
                /\ (~fresh /\ pc[p] # "idle" /\ pc'[p] = "idle")
                   => ret'[p].err # "NotAuthorized"]_vars

C16_Witness ==
    /\ pin = "approved"
    /\ ~fresh
    /\ ret[Handler].op = "SaveToken"
    /\ \E p \in Callers :
          /\ ret[p].op = "Token"
          /\ ret[p].err = "none"
          /\ ret[p].tok = tok
          /\ tok.extra # NoExtra

\* C17: the held token is replaced as a whole.  After a successful refresh
\* inside Token() each of its fields is the field of the response, empty
\* when the response has none, and after SaveToken(c) each of its fields is
\* the field of c: nothing of the token held before is kept.
C17_OverwriteNeverMerge ==
    [][/\ \A p \in Callers :
            (TokenEndsRefresh(p) /\ ret'[p].err = "none")
            => LET b == ret'[p].resp.body
               IN  /\ tok'.access = Field(b, "access_token", "")
                   /\ tok'.refresh = Field(b, "refresh_token", "")
                   /\ tok'.type = Field(b, "token_type", "")
                   /\ tok'.expiry = ExpiryOf(Field(b, "expires_in", 0), now)
                   /\ tok'.extra = [scope |-> Field(b, "scope", "")]
       /\ \A p \in Procs :
            SaveTokenReturns(p)
            => /\ tok'.access = arg[p].access
               /\ tok'.refresh = arg[p].refresh
               /\ tok'.type = arg[p].type
               /\ tok'.expiry = arg[p].expiry
               /\ tok'.extra = arg[p].extra]_vars

C17_Witness ==
    \E p \in Callers :
        /\ ret[p].op = "Token"
        /\ ret[p].err = "none"
        /\ ret[p].resp.kind = "body"
        /\ "refresh_token" \notin DOMAIN ret[p].resp.body
        /\ tok = ret[p].tok
        /\ tok.refresh = ""
        /\ tok.access = "a2"

----------------------------------------------------------------------------
\* Calls of Token() and SaveToken on a TokenSource that holds an expired
\* token, with time running on to the deadline of a refresh in flight.
\* Nothing obliges the server to answer; what is taken for granted is that
\* time passes, that the request returns once its context has expired, and
\* that a caller waiting for the mutex gets it when it is free again and
\* again (sync.Mutex hands the lock to a waiter that starves).

\* The deadline of the refresh of caller p passes.
DeadlinePasses(p) ==
    /\ pc[p] = "tokenRefresh"
    /\ now < deadline
    /\ now' = deadline
    /\ UNCHANGED <<mgr, ctorErr, cacheFile, pin, file, tok, mut, deadline, pc,
                   arg, ret, netCalls, calls, saved, fresh>>

TimedOut == [kind |-> "timeout"]

InitLive ==
    /\ mgr = "up"
    /\ ctorErr = FALSE
    /\ cacheFile \in {"", CachePath}
    /\ file = (IF cacheFile = "" THEN Absent ELSE Json(EncodeToken(TB)))
    /\ tok = TB
    /\ mut = Free
    /\ now = 0
    /\ deadline = 0
    /\ pc = [p \in Procs |-> "idle"]
    /\ arg = [p \in Procs |-> NoTok]
    /\ ret = [p \in Procs |-> NoRet]
    /\ netCalls = 0
    /\ calls = 0
    /\ saved = (IF cacheFile = "" THEN NoTok ELSE TB)
    /\ fresh = TRUE
    /\ pin = "approved"

NextLive ==
    \/ \E d \in TickSteps : Tick(d)
    \/ \E p \in Callers : DeadlinePasses(p)
    \/ \E p \in Callers : TokenCall(p)
    \/ \E p \in Callers : TokenRun(p)
    \/ \E p \in Callers, r \in Responses, w \in WriteOutcomes :
           TokenRefreshDone(p, r, w)
    \/ \E c \in CredsInHand(Handler) : SaveTokenCall(Handler, c)
    \/ \E w \in WriteOutcomes : SaveTokenRun(Handler, w)

Fairness ==
    /\ \A p \in Callers :
          /\ WF_vars(DeadlinePasses(p))
          /\ WF_vars(\E w \in WriteOutcomes : TokenRefreshDone(p, TimedOut, w))
          /\ SF_vars(TokenRun(p))
    /\ SF_vars(\E w \in WriteOutcomes : SaveTokenRun(Handler, w))

SpecLive == InitLive /\ [][NextLive]_vars /\ Fairness

\* C18: every refresh inside Token() ends and leaves the mutex free, with
\* or without an answer of the server; the mutex is held only by a caller
\* whose refresh is in flight; and every caller waiting in Token() or in
\* SaveToken gets the mutex and returns.
C18_EveryCallReturns ==
    /\ [](mut # Free => pc[mut] = "tokenRefresh")
    /\ \A p \in Callers :
          /\ (pc[p] = "tokenRefresh") ~> (pc[p] = "idle" /\ mut # p)
          /\ (pc[p] = "tokenWait") ~> (pc[p] = "idle")
    /\ (pc[Handler] = "saveWait") ~> (pc[Handler] = "idle")

C18_Witness ==
    \E p, q \in Callers :
        /\ ret[p].op = "Token"
        /\ ret[p].resp = TimedOut
        /\ pc[p] = "idle"
        /\ mut = Free
        /\ ret[q].op = "Token"
        /\ ret[q].resp.kind \in {"timeout", "body"}
        /\ q # p
        /\ ret[Handler].op = "SaveToken"

\* C19: SaveToken does not take effect between the check of a Token() call
\* and the end of its refresh: while a refresh is in flight the held token
\* is the one that call checked and no SaveToken returns, so a refresh
\* never replaces a token saved after it started; every change of the held
\* token is made by the call that has the mutex at that step, with its own
\* token.
C19_SaveTokenAtomic ==
    /\ [](\A p \in Refreshing : tok = arg[p])
    /\ [][/\ \A p \in Refreshing :
                /\ \A q \in Procs : ~SaveTokenReturns(q)
                /\ TokenEndsRefresh(p) => tok = arg[p]
          /\ (mgr = "up" /\ mgr' = "up" /\ tok' # tok)
             => \/ \E q \in Procs :
                      SaveTokenReturns(q) /\ mut = Free /\ tok' = arg[q]
                \/ \E p \in Callers :
                      /\ TokenEndsRefresh(p)
                      /\ mut = p
                      /\ tok' = ret'[p].tok]_vars

C19_Witness ==
    \E p \in Callers :
        /\ pc[p] = "tokenRefresh"
        /\ mut = p
        /\ pc[Handler] = "saveWait"
        /\ arg[p] = tok
        /\ arg[Handler] # tok

\* A Token() call of p returns at this step without an error.
TokenSucceeds(p) ==
    /\ pc[p] \in {"tokenWait", "tokenRefresh"}
    /\ pc'[p] = "idle"
    /\ ret'[p].err = "none"

\* C20 as stated: the token a Token() call returns has not expired when it
\* is returned: its expiry is unset or later than the current time.
C20_ReturnedUnexpired ==
    [][\A p \in Callers :
         TokenSucceeds(p)
         => \/ ret'[p].tok.expiry = ZeroTime
            \/ ret'[p].tok.expiry > now]_vars

\* C20: the token a Token() call returns has not expired when it is
\* returned (its expiry is unset or at least ExpiryDelta ahead) when it is
\* the held token returned as it was, or when it was refreshed from a
\* response whose expires_in is at least 2 and whose lifetime fits a
\* time.Duration.
C20_UnexpiredFromTwoMinutes ==
    [][\A p \in Callers :
         (/\ TokenSucceeds(p)
          /\ \/ pc[p] = "tokenWait"
             \/ /\ ExpiresIn(ret'[p].resp) >= 2
                /\ Fits(ExpiresIn(ret'[p].resp)))
         => ~Expired(ret'[p].tok, now)]_vars

C20_Witness ==
    \E p \in Callers :
        /\ ret[p].op = "Token"
        /\ ret[p].err = "none"
        /\ ret[p].resp.kind = "body"
        /\ ExpiresIn(ret[p].resp) = 2
        /\ ~Expired(ret[p].tok, now)
        /\ ret[p].tok.expiry = now + Minute

\* The errors getToken, RefreshToken and Token() return.
ReturnedErrors ==
    {"Transport", "Status", "Decode", "NoRefreshToken", "NotAuthorized"}

\* The outcome r of a call is a returned token or a returned error.
Returns(r) ==
    \/ r.err = "none" /\ r.tok # NoTok
    \/ r.err \in ReturnedErrors /\ r.tok = NoTok

\* C21 as stated: whatever the token endpoint answers, GetToken and
\* RefreshToken end with a returned token or a returned error, also for a
\* 200 whose JSON body has none of the token fields, and a Token() call
\* whose refresh received that answer returns and leaves the mutex free.
C21_EveryResponseReturns ==
    [][/\ \A p \in Procs :
            (pc[p] \in {"getToken", "refreshToken"} /\ pc'[p] = "idle")
            => Returns(ret'[p])
       /\ \A p \in Callers :
            TokenEndsRefresh(p) => Returns(ret'[p]) /\ mut' = Free]_vars

C21_Witness ==
    \E p \in Callers :
        /\ ret[p].op = "Token"
        /\ ret[p].resp.kind = "body"
        /\ DOMAIN ret[p].resp.body \cap TokenKeys = {}
        /\ ret[p].err = "panic"
        /\ pc[p] = "idle"
        /\ mut = Free

====
